---- MODULE Spec2Model ----
(***************************************************************************)
(* Model of websocket_server.py: one ServeClient session, made of the      *)
(* ingestion thread (recv_audio -> ServeClient.add_frames) and the         *)
(* transcription thread (ServeClient.speech_to_text -> update_segments ->  *)
(* fill_output).                                                           *)
(*                                                                         *)
(* Representation.                                                         *)
(*  - The client's audio is one stream of samples numbered 0, 1, 2, ...    *)
(*    The numpy array frames_np always holds a contiguous run of that      *)
(*    stream, so an array is the record [lo, hi]: it holds the stream      *)
(*    samples lo .. hi-1 and its shape[0] is hi - lo.                      *)
(*  - Offsets and durations in seconds (timestamp_offset, frames_offset,   *)
(*    duration, segment start/end) are held in units of 1/RATE second, so  *)
(*    that the code's products with RATE and quotients by RATE are exact:  *)
(*    a value v here is v / RATE seconds in the code, and                  *)
(*    int(seconds * RATE) is v itself.                                     *)
(*  - A Python str is the sequence of its characters.                      *)
(*  - time.time() is a clock in whole seconds.                             *)
(***************************************************************************)
EXTENDS Integers, Sequences, FiniteSets, TLC

VARIABLES
    frames_np,              \* self.frames_np: None or an array [lo, hi]
    frames_offset,          \* self.frames_offset
    timestamp_offset,       \* self.timestamp_offset
    text,                   \* self.text: list of committed lines
    current_out,            \* self.current_out
    prev_out,               \* self.prev_out
    t_start,                \* self.t_start: <<>> (None) or <<time>>
    same_output_threshold,  \* self.same_output_threshold
    exit,                   \* self.exit
    pc,                     \* position of the speech_to_text thread
    duration,               \* local `duration` of speech_to_text
    samples_take,           \* local `samples_take` of speech_to_text
    input_bytes,            \* local `input_bytes`: the window handed to the engine
    initial_prompt,         \* local `initial_prompt`: <<>> (None) or <<str>>
    rpc,                    \* position of the recv_audio thread
    frame_np,               \* argument of add_frames: number of samples of the frame
    now,                    \* last value returned by time.time()
    sent,                   \* last message given to websocket.send: <<>> or <<str>>
    result,                 \* local `result`: <<>> or <<list of segments>>
    out_dict,               \* local `out_dict`: <<>> or <<[text, segments]>>
    streak                  \* history: run of cycles with one and the same single segment

vars == <<frames_np, frames_offset, timestamp_offset, text, current_out,
          prev_out, t_start, same_output_threshold, exit, pc, duration,
          samples_take, input_bytes, initial_prompt, rpc, frame_np, now,
          sent, result, out_dict, streak>>

bufferVars == <<frames_np, frames_offset, rpc, frame_np>>
sessionVars == <<text, current_out, prev_out, t_start, same_output_threshold,
                 now, sent, streak>>
localVars == <<duration, samples_take, input_bytes, initial_prompt>>
answerVars == <<result, out_dict>>

-----------------------------------------------------------------------------
(* Program constants *)

RATE == 16000
HighWaterSeconds == 45
TrimSeconds == 30
OffsetStepSeconds == 45
ClipSeconds == 25
KeepSeconds == 5
MinSeconds == 1
SameOutputLimit == 5
show_prev_out_thresh == 5
add_pause_thresh == 3
pick_previous_segments == 2
WrapWidth == 50

(* Bounds of the model *)

MaxStream == 18             \* audio the client sends in all, in units of FrameUnit, under Spec
MaxTextStream == 20         \* the same, under SpecStall and SpecPause
MaxBufferLines == 1         \* committed lines, under Spec
MaxStallLines == 1          \* committed lines, under SpecStall
MaxStallSegments == 1       \* segments in one engine result, under SpecStall
MaxPauseLines == 3          \* committed lines, under SpecPause
MaxCommitStream == 20       \* the same, under SpecCommit
MaxCommitLines == 2         \* committed lines, under SpecCommit
MaxCommitSegments == 3      \* segments in one engine result, under SpecCommit
MaxLiveStream == 20         \* the same, under SpecLive
MaxLiveLines == 1           \* committed lines, under SpecLive
MaxFormatLines == 3         \* committed lines, under SpecFormat
MaxClock == 6               \* last clock reading
MaxSegments == 2            \* segments in one engine result

-----------------------------------------------------------------------------
(* Values *)

None == [none |-> TRUE]
NoArray == [lo |-> 0, hi |-> 0]

Min(a, b) == IF a < b THEN a ELSE b
Max(a, b) == IF a > b THEN a ELSE b

Last(s) == s[Len(s)]
Front(s) == SubSeq(s, 1, Len(s) - 1)

IsPrefix(s, t) == Len(s) <= Len(t) /\ SubSeq(t, 1, Len(s)) = s

\* ndarray.shape[0]
Shape(a) == a.hi - a.lo

\* a[k:] for an integer k, with Python's meaning of a negative start
SliceFrom(a, k) ==
    IF k >= 0
    THEN [lo |-> Min(a.lo + k, a.hi), hi |-> a.hi]
    ELSE [lo |-> Max(a.lo, a.hi + k), hi |-> a.hi]

-----------------------------------------------------------------------------
(* Strings *)

IsSpaceChar(c) == c = " "

\* s.strip() == ''
IsBlank(s) == \A i \in 1..Len(s) : IsSpaceChar(s[i])

RECURSIVE LStrip(_)
LStrip(s) == IF s # <<>> /\ IsSpaceChar(Head(s)) THEN LStrip(Tail(s)) ELSE s

RECURSIVE RStrip(_)
RStrip(s) == IF s # <<>> /\ IsSpaceChar(Last(s)) THEN RStrip(Front(s)) ELSE s

\* str.strip()
Strip(s) == RStrip(LStrip(s))

LowerChar(c) == CASE c = "A" -> "a" [] c = "B" -> "b" [] OTHER -> c

\* str.lower()
Lower(s) == [i \in 1..Len(s) |-> LowerChar(s[i])]

RECURSIVE Join(_)
Join(ss) == IF ss = <<>> THEN <<>> ELSE Head(ss) \o Join(Tail(ss))

\* " ".join(ss)
RECURSIVE JoinSpace(_)
JoinSpace(ss) ==
    IF ss = <<>> THEN <<>>
    ELSE IF Len(ss) = 1 THEN Head(ss)
    ELSE Head(ss) \o <<" ">> \o JoinSpace(Tail(ss))

\* length of the first run of s of characters that are all spaces or all not
RunLen(s) ==
    CHOOSE n \in 1..Len(s) :
        /\ \A i \in 1..n : IsSpaceChar(s[i]) = IsSpaceChar(s[1])
        /\ n = Len(s) \/ IsSpaceChar(s[n + 1]) # IsSpaceChar(s[1])

\* TextWrapper._split: the words and the runs of whitespace of s
RECURSIVE Chunks(_)
Chunks(s) ==
    IF s = <<>> THEN <<>>
    ELSE <<SubSeq(s, 1, RunLen(s))>> \o Chunks(SubSeq(s, RunLen(s) + 1, Len(s)))

RECURSIVE SumLen(_)
SumLen(ss) == IF ss = <<>> THEN 0 ELSE Len(Head(ss)) + SumLen(Tail(ss))

\* TextWrapper._wrap_chunks with drop_whitespace and break_long_words
RECURSIVE WrapChunks(_, _, _)
WrapChunks(chunks, lines, width) ==
    IF chunks = <<>> THEN lines
    ELSE
    LET c1 == IF IsBlank(Head(chunks)) /\ lines # <<>> THEN Tail(chunks) ELSE chunks
        k == CHOOSE n \in 0..Len(c1) :
                /\ SumLen(SubSeq(c1, 1, n)) <= width
                /\ n = Len(c1) \/ SumLen(SubSeq(c1, 1, n + 1)) > width
        fit == SubSeq(c1, 1, k)
        rest == SubSeq(c1, k + 1, Len(c1))
        long == rest # <<>> /\ Len(Head(rest)) > width
        space_left == width - SumLen(fit)
        cur == IF long THEN Append(fit, SubSeq(Head(rest), 1, space_left)) ELSE fit
        rest2 == IF long
                 THEN <<SubSeq(Head(rest), space_left + 1, Len(Head(rest)))>> \o Tail(rest)
                 ELSE rest
        cur2 == IF cur # <<>> /\ IsBlank(Last(cur)) THEN Front(cur) ELSE cur
        lines2 == IF cur2 # <<>> THEN Append(lines, Join(cur2)) ELSE lines
    IN  WrapChunks(rest2, lines2, width)

\* textwrap.TextWrapper(width=50).wrap(s)
Wrap(s) == WrapChunks(Chunks(s), <<>>, WrapWidth)

\* ss[-n:] for n >= 1
LastN(ss, n) == SubSeq(ss, Max(1, Len(ss) - n + 1), Len(ss))


-----------------------------------------------------------------------------
(* Inputs *)

\* the unit of the lengths of the frames: 5 seconds of samples
FrameUnit == 5 * RATE

\* a segment of the engine: its text and its offsets in the window
Segs(texts, starts, ends) == [text : texts, start : starts, end : ends]

\* what transcriber.transcribe can return: up to MaxSegments segments
ResultsOf(segs) == UNION {[1..n -> segs] : n \in 0..MaxSegments}

-----------------------------------------------------------------------------
(* ServeClient.add_frames, called by recv_audio *)

\* the guard of the eviction
NeedsEviction(a) == a # None /\ Shape(a) > HighWaterSeconds * RATE

\* self.frames_offset += 45.0
AdvancedOffset(fo) == fo + OffsetStepSeconds * RATE

\* self.frames_np[int(30*RATE):]
Trimmed(a) == SliceFrom(a, TrimSeconds * RATE)

\* frame_np.copy() or np.concatenate((self.frames_np, frame_np)): the frame
\* holds the n samples of the stream that follow the ones received so far
Appended(a, received, n) ==
    IF a = None
    THEN [lo |-> received, hi |-> received + n]
    ELSE [lo |-> a.lo, hi |-> a.hi + n]

\* number of samples of the stream received so far
Received == IF frames_np = None THEN 0 ELSE frames_np.hi

\* variant: recv_audio waits for the answer of the engine
RecvFrameAfterAnswer(n, maxStream) ==
    /\ rpc = "recv"
    /\ pc # "inflight"
    /\ Received + n <= maxStream * FrameUnit
    /\ frame_np' = n
    /\ rpc' = IF NeedsEviction(frames_np) THEN "add_offset" ELSE "add_append"
    /\ UNCHANGED <<frames_np, frames_offset, timestamp_offset, pc, exit>>
    /\ UNCHANGED <<sessionVars, localVars, answerVars>>

\* recv_audio: websocket.recv() returns a binary frame of n samples and
\* add_frames(frame_np) begins with the test of the eviction
RecvFrame(n, maxStream) ==
    /\ rpc = "recv"
    /\ Received + n <= maxStream * FrameUnit
    /\ frame_np' = n
    /\ rpc' = IF NeedsEviction(frames_np) THEN "add_offset" ELSE "add_append"
    /\ UNCHANGED <<frames_np, frames_offset, timestamp_offset, pc, exit>>
    /\ UNCHANGED <<sessionVars, localVars, answerVars>>

\* recv_audio: websocket.recv() raises ConnectionClosedOK
RecvClosed ==
    /\ rpc = "recv"
    /\ rpc' = "closed"
    /\ UNCHANGED <<frames_np, frames_offset, frame_np, timestamp_offset, pc, exit>>
    /\ UNCHANGED <<sessionVars, localVars, answerVars>>

\* add_frames, the advance of frames_offset
AddOffset ==
    /\ rpc = "add_offset"
    /\ frames_offset' = AdvancedOffset(frames_offset)
    /\ rpc' = "add_trim"
    /\ UNCHANGED <<frames_np, frame_np, timestamp_offset, pc, exit>>
    /\ UNCHANGED <<sessionVars, localVars, answerVars>>

\* add_frames, the removal of the head of the buffer
AddTrim ==
    /\ rpc = "add_trim"
    /\ frames_np' = Trimmed(frames_np)
    /\ rpc' = "add_append"
    /\ UNCHANGED <<frames_offset, frame_np, timestamp_offset, pc, exit>>
    /\ UNCHANGED <<sessionVars, localVars, answerVars>>

\* add_frames, the append of the frame; add_frames returns
AddAppend ==
    /\ rpc = "add_append"
    /\ frames_np' = Appended(frames_np, Received, frame_np)
    /\ frame_np' = 0
    /\ rpc' = "recv"
    /\ UNCHANGED <<frames_offset, timestamp_offset, pc, exit>>
    /\ UNCHANGED <<sessionVars, localVars, answerVars>>

-----------------------------------------------------------------------------
(* ServeClient.fill_output *)

\* self.text[-pick_prev:] with pick_prev = min(len(self.text), 2)
PickPrevious(lines) ==
    IF Min(Len(lines), pick_previous_segments) = 0
    THEN lines
    ELSE LastN(lines, Min(Len(lines), pick_previous_segments))

\* variant: an empty line discards nothing
GatherAcrossPause(acc, lines) == acc \o Join(lines)

\* the loop of fill_output: an empty line discards what was gathered before it
RECURSIVE Gather(_, _)
Gather(acc, lines) ==
    IF lines = <<>> THEN acc
    ELSE Gather(IF Head(lines) = <<>> THEN <<>> ELSE acc \o Head(lines), Tail(lines))

\* fill_output(output) when self.text is lines
fill_output(lines, output) ==
    JoinSpace(LastN(Wrap(Gather(<<>>, PickPrevious(lines)) \o output), 2))

-----------------------------------------------------------------------------
(* ServeClient.update_segments *)

\* segments[:-1] when len(segments) > 1
CompleteSegments(segments) == IF Len(segments) > 1 THEN Front(segments) ELSE <<>>

\* the test that the incomplete segment is the one of the previous cycle
IsRepeat(cur, prev) == Strip(cur) = Strip(prev) /\ cur # <<>>

\* same_output_threshold after that test
RepeatCount(cur, prev, count) == IF IsRepeat(cur, prev) THEN count + 1 ELSE 0

\* variant: the end of a segment is not clamped to the window
UnclampedEnd(s, dur) == s.end

\* min(duration, s.end)
ClampedEnd(s, dur) == Min(dur, s.end)

\* variant: the count is compared with >=
IsStalledFromLimit(count) == count >= SameOutputLimit

\* self.same_output_threshold > 5
IsStalled(count) == count > SameOutputLimit

\* the test that guards the append of a promoted segment
NotYetCommitted(lines, cur) ==
    lines = <<>> \/ Lower(Strip(Last(lines))) # Lower(Strip(cur))

\* update_segments(segments, duration): the fields it leaves in self, the
\* output it returns and the transcript it returns
update_segments(segments, dur) ==
    LET complete == CompleteSegments(segments)
        lines1 == text \o [i \in 1..Len(complete) |-> complete[i].text]
        transcript1 == [i \in 1..Len(complete) |->
                          [start |-> timestamp_offset + complete[i].start,
                           end |-> timestamp_offset + ClampedEnd(complete[i], dur),
                           text |-> complete[i].text]]
        offset1 == IF complete = <<>> THEN <<>> ELSE <<ClampedEnd(Last(complete), dur)>>
        cur == Last(segments).text
        count == RepeatCount(cur, prev_out, same_output_threshold)
        stalled == IsStalled(count)
        append == stalled /\ NotYetCommitted(lines1, cur)
        lines2 == IF append THEN Append(lines1, cur) ELSE lines1
        transcript2 == IF append
                       THEN Append(transcript1,
                                   [start |-> timestamp_offset,
                                    end |-> timestamp_offset + dur,
                                    text |-> cur])
                       ELSE transcript1
        offset2 == IF stalled THEN <<dur>> ELSE offset1
        out == IF stalled THEN <<>> ELSE cur
    IN  [text |-> lines2,
         current_out |-> out,
         prev_out |-> IF stalled THEN prev_out ELSE cur,
         same_output_threshold |-> IF stalled THEN 0 ELSE count,
         timestamp_offset |-> IF offset2 = <<>> THEN timestamp_offset
                              ELSE timestamp_offset + offset2[1],
         output |-> fill_output(lines2, out),
         transcript |-> transcript2]

-----------------------------------------------------------------------------
(* ServeClient.speech_to_text *)

NoStreak == [text |-> <<>>, n |-> 0]

\* the window of the overflow test: frames_np[int((timestamp_offset - frames_offset)*RATE):]
GuardWindow(a, ts, fo) == SliceFrom(a, ts - fo)

\* the overflow test
Overflows(a, ts, fo) == Shape(GuardWindow(a, ts, fo)) > ClipSeconds * RATE

\* self.frames_offset + duration - 5
ClippedOffset(fo, dur) == fo + dur - KeepSeconds * RATE

\* max(0, (self.timestamp_offset - self.frames_offset)*self.RATE)
SamplesTake(ts, fo) == Max(0, ts - fo)

\* duration < 1.0
TooShort(dur) == dur < MinSeconds * RATE

\* variant: the initial prompt is the last line that is not ''
RECURSIVE InitialPromptBeforePause(_)
InitialPromptBeforePause(lines) ==
    IF lines = <<>> THEN <<>>
    ELSE IF Last(lines) # <<>> THEN <<Last(lines)>>
    ELSE InitialPromptBeforePause(Front(lines))

\* the initial prompt: the last line when there is one and it is not ''
InitialPrompt(lines) ==
    IF lines # <<>> /\ Last(lines) # <<>> THEN <<Last(lines)>> ELSE <<>>

\* websocket.send(output): raises, and the handler catches it, once the
\* connection is closed
Sent(output) == IF rpc = "closed" THEN sent ELSE <<output>>

\* the locals hold no value that is read again once an iteration is over
ResetLocals ==
    /\ duration' = 0
    /\ samples_take' = 0
    /\ input_bytes' = NoArray
    /\ initial_prompt' = <<>>

\* top of the loop. When exit is set, self.mqttc.disconnect() raises
\* AttributeError (ServeClient has no attribute mqttc) outside the try, and
\* the thread ends before transcriber.destroy() and the break ("done").
\* Otherwise, when there are frames, the overflow test; the answer of the
\* last iteration is not read again
Guard ==
    /\ pc = "top"
    /\ IF exit
       THEN pc' = "raised"
       ELSE /\ frames_np # None
            /\ pc' = IF Overflows(frames_np, timestamp_offset, frames_offset)
                     THEN "clip_duration" ELSE "take"
    /\ result' = <<>>
    /\ out_dict' = <<>>
    /\ UNCHANGED <<bufferVars, timestamp_offset, exit, sessionVars, localVars>>

\* duration = self.frames_np.shape[0] / self.RATE
ClipDuration ==
    /\ pc = "clip_duration"
    /\ duration' = Shape(frames_np)
    /\ pc' = "clip_offset"
    /\ UNCHANGED <<bufferVars, timestamp_offset, exit, sessionVars, answerVars>>
    /\ UNCHANGED <<samples_take, input_bytes, initial_prompt>>

\* self.timestamp_offset = self.frames_offset + duration - 5
ClipOffset ==
    /\ pc = "clip_offset"
    /\ timestamp_offset' = ClippedOffset(frames_offset, duration)
    /\ pc' = "take"
    /\ UNCHANGED <<bufferVars, exit, sessionVars, localVars, answerVars>>

\* samples_take = max(0, ...)
Take ==
    /\ pc = "take"
    /\ samples_take' = SamplesTake(timestamp_offset, frames_offset)
    /\ pc' = "slice"
    /\ UNCHANGED <<bufferVars, timestamp_offset, exit, sessionVars, answerVars>>
    /\ UNCHANGED <<duration, input_bytes, initial_prompt>>

\* input_bytes = self.frames_np[int(samples_take):].copy() and its duration;
\* a window of less than a second ends the iteration, otherwise the prompt
\* is chosen and transcriber.transcribe is called
Slice ==
    /\ pc = "slice"
    /\ LET window == SliceFrom(frames_np, samples_take) IN
        IF TooShort(Shape(window))
        THEN pc' = "top" /\ ResetLocals
        ELSE /\ pc' = "inflight"
             /\ input_bytes' = window
             /\ duration' = Shape(window)
             /\ samples_take' = 0
             /\ initial_prompt' = InitialPrompt(text)
    /\ UNCHANGED <<bufferVars, timestamp_offset, exit, sessionVars, answerVars>>

\* history: the cycles that returned the one segment s, counted from a cycle
\* that began with no previous candidate and a count of 0
NextStreak(res) ==
    IF Len(res) # 1 THEN NoStreak
    ELSE IF streak.n \in 1..6 /\ streak.text = res[1].text
         THEN [text |-> streak.text, n |-> streak.n + 1]
    ELSE IF prev_out = <<>> /\ same_output_threshold = 0
         THEN [text |-> res[1].text, n |-> 1]
    ELSE NoStreak

\* transcribe returns segments: update_segments and the send of its output
NonEmptyResult(res, maxLines) ==
    /\ pc = "inflight"
    /\ res # <<>>
    /\ \E u \in {update_segments(res, duration)} :
        /\ Len(u.text) <= maxLines
        /\ t_start' = <<>>
        /\ text' = u.text
        /\ current_out' = u.current_out
        /\ prev_out' = u.prev_out
        /\ same_output_threshold' = u.same_output_threshold
        /\ timestamp_offset' = u.timestamp_offset
        /\ sent' = Sent(u.output)
        /\ out_dict' = <<[text |-> u.output, segments |-> u.transcript]>>
    /\ result' = <<res>>
    /\ streak' = NextStreak(res)
    /\ pc' = "top"
    /\ ResetLocals
    /\ UNCHANGED <<bufferVars, exit, now>>

\* the start of the pause after the first reading t1 of the clock
PauseStart(ts, t1) == IF ts = <<>> THEN t1 ELSE ts[1]

\* time.time() - self.t_start < self.show_prev_out_thresh
ShowsPrevious(t, start) == t - start < show_prev_out_thresh

\* variant: the pause is added whatever the last line is
PauseDueAnyLast(lines, t, start) ==
    lines # <<>> /\ t - start > add_pause_thresh

\* variant: the pause is added to an empty list too
PauseDueOnEmpty(lines, t, start) ==
    (lines = <<>> \/ Last(lines) # <<>>) /\ t - start > add_pause_thresh

\* the test that guards self.text.append('')
PauseDue(lines, t, start) ==
    lines # <<>> /\ Last(lines) # <<>> /\ t - start > add_pause_thresh

\* variant: the pause takes the place of the last line
WithPauseOverLast(lines) == Append(Front(lines), <<>>)

\* self.text.append('')
WithPause(lines) == Append(lines, <<>>)

\* transcribe returns no segment; t1, t2, t3 are the readings of the clock
EmptyResult(t1, t2, t3, maxLines) ==
    /\ pc = "inflight"
    /\ now <= t1 /\ t1 <= t2 /\ t2 <= t3
    /\ LET start == PauseStart(t_start, t1)
           output == IF ShowsPrevious(t2, start) THEN fill_output(text, <<>>) ELSE <<>>
       IN
        /\ t_start' = <<start>>
        /\ text' = IF PauseDue(text, t3, start) THEN WithPause(text) ELSE text
        /\ sent' = Sent(output)
        /\ out_dict' = <<[text |-> output, segments |-> <<>>]>>
    /\ result' = <<<<>>>>
    /\ Len(text') <= maxLines
    /\ now' = t3
    /\ streak' = NoStreak
    /\ pc' = "top"
    /\ ResetLocals
    /\ UNCHANGED <<bufferVars, exit, timestamp_offset, current_out, prev_out,
                   same_output_threshold>>

\* variant: the handler forgets the start of the pause
TranscribeRaiseClearsPause ==
    /\ pc = "inflight"
    /\ t_start' = <<>>
    /\ streak' = NoStreak
    /\ pc' = "top"
    /\ ResetLocals
    /\ UNCHANGED <<bufferVars, exit, timestamp_offset, text, current_out,
                   prev_out, same_output_threshold, now, sent, answerVars>>

\* transcribe raises: the handler logs, sleeps and the loop goes on
TranscribeRaise ==
    /\ pc = "inflight"
    /\ streak' = NoStreak
    /\ pc' = "top"
    /\ ResetLocals
    /\ UNCHANGED <<bufferVars, exit, timestamp_offset, text, current_out,
                   prev_out, t_start, same_output_threshold, now, sent,
                   answerVars>>

-----------------------------------------------------------------------------
(* The session *)

Init ==
    /\ frames_np = None
    /\ frames_offset = 0
    /\ timestamp_offset = 0
    /\ text = <<>>
    /\ current_out = <<>>
    /\ prev_out = <<>>
    /\ t_start = <<>>
    /\ same_output_threshold = 0
    /\ exit = FALSE
    /\ pc = "top"
    /\ duration = 0
    /\ samples_take = 0
    /\ input_bytes = NoArray
    /\ initial_prompt = <<>>
    /\ rpc = "recv"
    /\ frame_np = 0
    /\ now = 0
    /\ sent = <<>>
    /\ result = <<>>
    /\ out_dict = <<>>
    /\ streak = NoStreak

(* Spec: frames of 20 and 25 seconds, an engine that returns up to two     *)
(* segments that end 0, 5 or 30 seconds into the window, and a clock that *)
(* stands still; the two threads interleave at every step.                *)
BufferFrames == {4 * FrameUnit, 5 * FrameUnit}
BufferResults == ResultsOf(Segs({<<"a">>}, {0}, {0, 5 * RATE, 30 * RATE}))

Next ==
    \/ \E n \in BufferFrames : RecvFrame(n, MaxStream)
    \/ RecvClosed
    \/ AddOffset
    \/ AddTrim
    \/ AddAppend
    \/ Guard
    \/ ClipDuration
    \/ ClipOffset
    \/ Take
    \/ Slice
    \/ \E res \in BufferResults : NonEmptyResult(res, MaxBufferLines)
    \/ EmptyResult(now, now, now, MaxBufferLines)
    \/ TranscribeRaise

Spec == Init /\ [][Next]_vars

\* recv_audio is between two calls of add_frames
IngestIdle == rpc \in {"recv", "closed"}

(* SpecStall: frames of 50 seconds, an engine that returns at most one    *)
(* segment, whose texts differ in case and in surrounding blanks or are   *)
(* empty, and a clock that stands still; the two threads interleave at    *)
(* every step.                                                            *)
StallFrames == {10 * FrameUnit}
StallTexts == {<<>>, <<" ">>, <<"a">>, <<" ", "a">>, <<"A">>}
StallSegs == Segs(StallTexts, {0}, {5 * RATE})
StallResults == UNION {[1..n -> StallSegs] : n \in 0..MaxStallSegments}

NextStall ==
    \/ \E n \in StallFrames : RecvFrame(n, MaxTextStream)
    \/ RecvClosed
    \/ AddOffset
    \/ AddTrim
    \/ AddAppend
    \/ Guard
    \/ ClipDuration
    \/ ClipOffset
    \/ Take
    \/ Slice
    \/ \E res \in StallResults : NonEmptyResult(res, MaxStallLines)
    \/ EmptyResult(now, now, now, MaxStallLines)
    \/ TranscribeRaise

SpecStall == Init /\ [][NextStall]_vars

(* SpecPause: frames of 50 seconds, an engine that returns up to two      *)
(* segments of one text, and a clock that gives any reading from the last *)
(* one to MaxClock; the two threads interleave at every step.             *)
PauseResults == ResultsOf(Segs({<<"a">>}, {0}, {5 * RATE}))

NextPause ==
    \/ \E n \in StallFrames : RecvFrame(n, MaxTextStream)
    \/ RecvClosed
    \/ AddOffset
    \/ AddTrim
    \/ AddAppend
    \/ Guard
    \/ ClipDuration
    \/ ClipOffset
    \/ Take
    \/ Slice
    \/ \E res \in PauseResults : NonEmptyResult(res, MaxPauseLines)
    \/ \E t1 \in now..MaxClock : \E t2 \in t1..MaxClock :
            \E t3 \in t2..MaxClock : EmptyResult(t1, t2, t3, MaxPauseLines)
    \/ TranscribeRaise

SpecPause == Init /\ [][NextPause]_vars

(* SpecCommit: frames of 50 seconds, an engine that returns up to three   *)
(* segments of two texts that begin 1 second into the window and end 5 or *)
(* 60 seconds into it, and a clock that stands still; the two threads     *)
(* interleave at every step.                                              *)
CommitSegs == Segs({<<"a">>, <<"b">>}, {RATE}, {5 * RATE, 60 * RATE})
CommitResults == UNION {[1..n -> CommitSegs] : n \in 0..MaxCommitSegments}

NextCommit ==
    \/ \E n \in StallFrames : RecvFrame(n, MaxCommitStream)
    \/ RecvClosed
    \/ AddOffset
    \/ AddTrim
    \/ AddAppend
    \/ Guard
    \/ ClipDuration
    \/ ClipOffset
    \/ Take
    \/ Slice
    \/ \E res \in CommitResults : NonEmptyResult(res, MaxCommitLines)
    \/ EmptyResult(now, now, now, MaxCommitLines)
    \/ TranscribeRaise

SpecCommit == Init /\ [][NextCommit]_vars

-----------------------------------------------------------------------------
(* Claims about the buffer and the offsets *)

\* C1 (as claimed): while the engine has never returned two or more segments
\* (no line is committed yet), the window handed to the engine is never longer
\* than 25 seconds.
C1_WindowAtMost25s ==
    (pc = "inflight" /\ text = <<>>) => Shape(input_bytes) <= ClipSeconds * RATE

\* C2 (as claimed): between the calls of add_frames, timestamp_offset is at
\* least frames_offset.
C2_CursorNotBehindOrigin ==
    IngestIdle => timestamp_offset >= frames_offset

\* C3 (as claimed): frames_offset has advanced by exactly the duration of the
\* samples removed from the head of the buffer, so between the calls of
\* add_frames it is the time in the stream of the first sample of the buffer.
C3_OriginIsFirstSample ==
    (IngestIdle /\ frames_np # None) => frames_offset = frames_np.lo

\* C4 (as claimed): when add_frames has returned, the buffer holds at most 45
\* seconds.
C4_AtMost45sAfterAdd ==
    (IngestIdle /\ frames_np # None) => Shape(frames_np) <= HighWaterSeconds * RATE

\* C5 (as claimed): when add_frames evicts, the array it keeps still holds
\* every sample of the buffer at or after timestamp_offset.
C5_EvictionKeepsWindow ==
    rpc = "add_offset" =>
        Trimmed(frames_np).lo
            <= SliceFrom(frames_np, SamplesTake(timestamp_offset, frames_offset)).lo

\* C6 (as claimed): no step decreases timestamp_offset.
C6_CursorMonotone ==
    [][timestamp_offset' >= timestamp_offset]_vars

\* C7 (as claimed): timestamp_offset is never after the end of the buffer.
C7_CursorWithinBuffer ==
    frames_np # None => timestamp_offset <= frames_offset + Shape(frames_np)

-----------------------------------------------------------------------------
(* Claims about the transcript *)

\* a cycle has just been added to the run of cycles that returned one and the
\* same single segment
StreakStep == streak' # streak /\ streak'.n >= 1

\* C8 (as claimed): counted from a cycle that began with no previous
\* candidate and a count of 0, the first five cycles that return one and the
\* same single segment of non-empty text append nothing, and the sixth
\* appends the text, moves timestamp_offset by the duration of the window and
\* sets the count to 0.
C8_PromotedOnSixth ==
    [][(StreakStep /\ streak'.text # <<>> /\ streak'.n <= 6) =>
        IF streak'.n < 6
        THEN text' = text
        ELSE /\ text' = Append(text, streak'.text)
             /\ timestamp_offset' = timestamp_offset + duration
             /\ same_output_threshold' = 0]_vars

\* C8 (amended): for a text that is not blank, the first six such cycles
\* append nothing, leave timestamp_offset alone and count 0, 1, .., 5; the
\* seventh appends the text, unless the last committed line is that text up
\* to case and surrounding blanks, moves timestamp_offset by the duration of
\* the window and sets the count to 0.
C8_PromotedOnSeventh ==
    [][(StreakStep /\ ~IsBlank(streak'.text)) =>
        IF streak'.n < 7
        THEN /\ text' = text
             /\ timestamp_offset' = timestamp_offset
             /\ same_output_threshold' = streak'.n - 1
        ELSE /\ text' = IF text = <<>>
                           \/ Lower(Strip(Last(text))) # Lower(Strip(streak'.text))
                        THEN Append(text, streak'.text)
                        ELSE text
             /\ timestamp_offset' = timestamp_offset + duration
             /\ same_output_threshold' = 0]_vars

\* C8 witness: the seventh cycle of such a run is over and has appended the
\* text.
C8_Witness ==
    /\ pc = "top"
    /\ streak.n = 7
    /\ ~IsBlank(streak.text)
    /\ text = <<streak.text>>
    /\ same_output_threshold = 0

\* C9: every step leaves the committed lines as they are or appends to them.
C9_AppendOnly ==
    [][IsPrefix(text, text')]_vars

\* C9 witness: a line, then a pause, have been committed, and the pause has
\* gone on.
C9_Witness ==
    /\ Len(text) = 2
    /\ text[1] # <<>>
    /\ text[2] = <<>>
    /\ t_start # <<>>
    /\ now - t_start[1] > show_prev_out_thresh

\* a cycle in which the engine returned no segment
EmptyStep ==
    \E t1 \in now..now' : \E t2 \in t1..now' : EmptyResult(t1, t2, now', MaxPauseLines)

\* a cycle in which the engine returned segments
NonEmptyStep ==
    \E res \in PauseResults : NonEmptyResult(res, MaxPauseLines)

\* C10: a cycle in which the engine returns no segment begins the pause if
\* there is none, and appends one '' when the last line is not '' and the
\* pause has lasted more than 3 seconds, and nothing otherwise; a cycle in
\* which the engine returns segments ends the pause.
C10_OnePausePerSilence ==
    [][/\ EmptyStep =>
            /\ t_start' # <<>>
            /\ t_start = <<>> => (now <= t_start'[1] /\ t_start'[1] <= now')
            /\ t_start # <<>> => t_start' = t_start
            /\ IF text # <<>> /\ Last(text) # <<>>
                  /\ now' - t_start'[1] > add_pause_thresh
               THEN text' = Append(text, <<>>)
               ELSE text' = text
       /\ NonEmptyStep => t_start' = <<>>]_vars

\* C10 witness: the pause has been appended after a line, and the silence has
\* gone on for two more seconds.
C10_Witness ==
    /\ pc = "top"
    /\ Len(text) = 2
    /\ text[1] # <<>>
    /\ text[2] = <<>>
    /\ t_start # <<>>
    /\ now - t_start[1] = show_prev_out_thresh

(* SpecLive: frames of 50 seconds, the engine of SpecPause, a clock       *)
(* that stands still; the two threads interleave at every step, the       *)
(* thread of speech_to_text is scheduled again and again and the engine   *)
(* answers.                                                               *)
LoopNext ==
    \/ Guard
    \/ ClipDuration
    \/ ClipOffset
    \/ Take
    \/ Slice
    \/ \E res \in PauseResults : NonEmptyResult(res, MaxLiveLines)
    \/ EmptyResult(now, now, now, MaxLiveLines)
    \/ TranscribeRaise

IngestNext ==
    \/ \E n \in StallFrames : RecvFrame(n, MaxLiveStream)
    \/ RecvClosed
    \/ AddOffset
    \/ AddTrim
    \/ AddAppend

NextLive == IngestNext \/ LoopNext

\* the steps of speech_to_text but for the answers with a result: one of
\* them is enabled exactly when a step of LoopNext is, a call in flight
\* being able to raise, and every turn of the loop takes one of them
LoopRuns ==
    \/ Guard
    \/ ClipDuration
    \/ ClipOffset
    \/ Take
    \/ Slice
    \/ TranscribeRaise

\* the thread of speech_to_text is never left waiting forever, and neither
\* is a call of add_frames
SpecLive == Init /\ [][NextLive]_vars /\ WF_vars(LoopRuns) /\ WF_vars(AddOffset \/ AddTrim \/ AddAppend)

(* SpecFormat: fill_output as a function of the committed lines and of    *)
(* the current output. The lines are up to MaxFormatLines of '', a short  *)
(* line, a line of two words and a line of more than 50 characters; the   *)
(* output is '', a word or a line of more than 50 characters.             *)
LongLine == [i \in 1..60 |-> IF i % 8 = 0 THEN " " ELSE "a"]
FormatTexts == {<<>>, <<"a">>, <<"b", " ", "c">>, LongLine}
FormatLines == UNION {[1..n -> FormatTexts] : n \in 0..MaxFormatLines}
FormatOutputs == {<<>>, <<" ", "b">>, LongLine}

InitFormat ==
    /\ frames_np = None
    /\ frames_offset = 0
    /\ timestamp_offset = 0
    /\ text \in FormatLines
    /\ current_out \in FormatOutputs
    /\ prev_out = current_out
    /\ t_start = <<>>
    /\ same_output_threshold = 0
    /\ exit = FALSE
    /\ pc = "top"
    /\ duration = 0
    /\ samples_take = 0
    /\ input_bytes = NoArray
    /\ initial_prompt = <<>>
    /\ rpc = "recv"
    /\ frame_np = 0
    /\ now = 0
    /\ sent = <<>>
    /\ result = <<>>
    /\ out_dict = <<>>
    /\ streak = NoStreak

\* output = self.current_out; self.fill_output(output), and the send of what
\* it returns
Render ==
    /\ sent = <<>>
    /\ sent' = <<fill_output(text, current_out)>>
    /\ UNCHANGED <<bufferVars, timestamp_offset, exit, pc, localVars, answerVars>>
    /\ UNCHANGED <<text, current_out, prev_out, t_start, same_output_threshold,
                   now, streak>>

NextFormat == Render

SpecFormat == InitFormat /\ [][NextFormat]_vars

-----------------------------------------------------------------------------
(* Claims about one cycle *)

\* the cycle that receives res promotes its last segment
Promotes(res) ==
    IsStalled(RepeatCount(Last(res).text, prev_out, same_output_threshold))

\* a cycle ends with the answer of the engine
AnswerStep == pc = "inflight" /\ result' # <<>> /\ result = <<>>

\* C11: a cycle whose result has n >= 2 segments and that promotes nothing
\* appends the texts of the first n-1 segments in order, returns for each of
\* them the line that starts at timestamp_offset + start and ends at
\* timestamp_offset + min(duration, end), with timestamp_offset as it is
\* before the cycle moves it, then moves timestamp_offset by
\* min(duration, end) of segment n-1 and keeps the text of segment n as the
\* current output.
C11_CompleteSegmentsCommitted ==
    [][(AnswerStep /\ Len(result'[1]) >= 2 /\ ~Promotes(result'[1])) =>
        LET res == result'[1]
            n == Len(res)
        IN
        /\ text' = text \o [i \in 1..(n - 1) |-> res[i].text]
        /\ out_dict'[1].segments =
              [i \in 1..(n - 1) |->
                 [start |-> timestamp_offset + res[i].start,
                  end |-> timestamp_offset + Min(duration, res[i].end),
                  text |-> res[i].text]]
        /\ timestamp_offset' = timestamp_offset + Min(duration, res[n - 1].end)
        /\ current_out' = res[n].text]_vars

\* C11 witness: two different lines are committed, the cursor has moved and
\* the last segment of the cycle is the current output.
C11_Witness ==
    /\ pc = "top"
    /\ Len(text) = 2
    /\ text[1] # text[2]
    /\ timestamp_offset > 0
    /\ current_out # <<>>
    /\ result # <<>>
    /\ Len(result[1]) = 3
    /\ Len(out_dict[1].segments) = 2

-----------------------------------------------------------------------------
(* Claims about the life of the session *)

\* C12 (as claimed): once recv_audio has left its loop, speech_to_text
\* comes to leave its loop through the break that follows
\* transcriber.destroy(); stated for a session that has received audio, the
\* loop spinning on its first test otherwise.
C12_LoopEndsAfterClose ==
    (rpc = "closed" /\ frames_np # None) ~> (pc = "done")

\* the engine call of a cycle ends without an answer
RaiseStep == pc = "inflight" /\ pc' # "inflight" /\ result' = <<>>

\* C13: a cycle whose transcribe call raises leaves the committed lines, the
\* current output, the previous candidate, the repeat count and the start of
\* the pause as they were, builds and sends no message, and leaves the loop
\* at its top with exit not set, ready for the next cycle.
C13_RaiseLeavesSession ==
    [][RaiseStep =>
        /\ UNCHANGED <<text, current_out, prev_out, same_output_threshold, t_start>>
        /\ UNCHANGED <<timestamp_offset, sent>>
        /\ out_dict' = <<>>
        /\ pc' = "top"
        /\ ~exit'
        /\ frames_np' # None]_vars

\* C13 witness: with one frame received and every window so far of a second
\* or more, the loop is back at its top without an answer, during a pause.
C13_Witness ==
    /\ pc = "top"
    /\ result = <<>>
    /\ frames_np # None
    /\ frames_np.lo = 0
    /\ frames_np.hi = 10 * FrameUnit
    /\ timestamp_offset + MinSeconds * RATE <= frames_np.hi
    /\ t_start # <<>>

-----------------------------------------------------------------------------
(* Claims about the two threads *)

\* positions of speech_to_text between the reads of the overflow test and
\* the read of the slice
BetweenReads == pc \in {"clip_duration", "clip_offset", "take", "slice"}

\* a step of speech_to_text that reads the buffer or frames_offset
ReadStep == pc \in {"top", "clip_duration", "clip_offset", "take", "slice"} /\ pc' # pc

\* C14 (as claimed): the reads of frames_np and frames_offset of one cycle
\* (overflow test, forced offset, slice) see one pair that add_frames left
\* or found: add_frames changes neither of them between the overflow test
\* and the slice, and no read falls between the advance of frames_offset
\* and the removal of the head of the buffer.
C14_NoTornReads ==
    [][/\ BetweenReads => UNCHANGED <<frames_np, frames_offset>>
       /\ ReadStep => rpc # "add_trim"]_vars

\* C17: while a call of transcribe has not returned or raised, the loop
\* starts no other call (it stays where it is, with the window and the
\* prompt of that call), and recv_audio is not held back: it can receive a
\* frame that the bound of the stream allows and can take the next step of
\* add_frames.
C17_OneCallInFlight ==
    /\ [](pc = "inflight" =>
            /\ rpc = "recv" =>
                 \A n \in BufferFrames :
                    Received + n <= MaxStream * FrameUnit
                        => ENABLED RecvFrame(n, MaxStream)
            /\ rpc = "add_offset" => ENABLED AddOffset
            /\ rpc = "add_trim" => ENABLED AddTrim
            /\ rpc = "add_append" => ENABLED AddAppend)
    /\ [][/\ (pc = "inflight" /\ pc' = "inflight") =>
                UNCHANGED <<input_bytes, duration, initial_prompt>>
          /\ (pc # "inflight" /\ pc' = "inflight") => pc = "slice"]_vars

\* C17 witness: a call is in flight and add_frames has appended a frame
\* since the window of the call was taken.
C17_Witness ==
    /\ pc = "inflight"
    /\ rpc = "recv"
    /\ frames_np.hi > input_bytes.hi

-----------------------------------------------------------------------------
(* Claims about the candidate and the pause *)

\* the candidate of a cycle that ends with the answer res
Candidate(res) == IF res = <<>> THEN <<>> ELSE Last(res).text

\* C15 (as claimed): a cycle whose candidate is empty, or differs from the
\* candidate of the previous cycle in more than case and surrounding blanks,
\* sets the count to 0 and remembers the candidate.
C15_OtherCandidateResets ==
    [][AnswerStep =>
        LET cand == Candidate(result'[1]) IN
        (cand = <<>> \/ Lower(Strip(cand)) # Lower(Strip(prev_out))) =>
            /\ same_output_threshold' = 0
            /\ prev_out' = cand]_vars

\* C16 (as claimed): a cycle that answers with no segment, on an open
\* connection and after a message has been sent, sends that same message
\* again when it ends less than 5 seconds after the start of the pause, and
\* sends '' when it begins 5 seconds or more after the start of the pause.
C16_PauseShowsLastSent ==
    [][(AnswerStep /\ result'[1] = <<>> /\ sent # <<>> /\ rpc # "closed") =>
        /\ now' - t_start'[1] < show_prev_out_thresh => sent' = sent
        /\ now - t_start'[1] >= show_prev_out_thresh => sent' = << <<>> >>]_vars

\* C18: the prompt of a call of transcribe is the last committed line when
\* there is one and it is not '', and None otherwise; it is never a line
\* that comes before a ''.
C18_PromptIsLastLine ==
    pc = "inflight" =>
        IF text = <<>> THEN initial_prompt = <<>>
        ELSE IF text[Len(text)] = <<>> THEN initial_prompt = <<>>
        ELSE initial_prompt = <<text[Len(text)]>>

\* C18 witness: a call is in flight with no prompt while the committed lines
\* end with a line and a ''.
C18_Witness ==
    /\ pc = "inflight"
    /\ Len(text) >= 2
    /\ text[Len(text)] = <<>>
    /\ text[Len(text) - 1] # <<>>
    /\ initial_prompt = <<>>

\* the lines among the last two of lines that come after the last '' among
\* those two, one after the other
AfterLastPause(lines) ==
    LET k == IF Len(lines) < 2 THEN Len(lines) ELSE 2
        last2 == [i \in 1..k |-> lines[Len(lines) - k + i]]
        pauses == {i \in 1..k : last2[i] = <<>>}
        from == IF pauses = {} THEN 1
                ELSE 1 + CHOOSE i \in pauses : \A j \in pauses : j <= i
    IN  IF from > k THEN <<>>
        ELSE IF from = k THEN last2[k]
        ELSE last2[1] \o last2[2]

\* C19: what fill_output returns is the wrapping, cut to its last two rows of
\* 50 characters, of the lines among the last 2 committed lines that come
\* after the last '' among those 2, in order, followed by the current
\* output; no line before that '' is in it; nothing of the session changes.
C19_RendersAfterLastPause ==
    /\ [](sent # <<>> =>
            sent[1] = JoinSpace(LastN(Wrap(AfterLastPause(text) \o current_out), 2)))
    /\ [][sent' # sent =>
            UNCHANGED <<text, current_out, prev_out, same_output_threshold,
                        t_start, timestamp_offset, frames_np, frames_offset>>]_vars

\* C19 witness: with a line of more than 50 characters and a '' after it,
\* what is returned is the current output alone.
C19_Witness ==
    /\ Len(text) = 2
    /\ Len(text[1]) > WrapWidth
    /\ text[2] = <<>>
    /\ current_out = <<" ", "b">>
    /\ sent = <<current_out>>

\* C20: with an engine that returns no segment of empty text, the committed
\* lines never begin with '' and never hold two '' in a row.
C20_NoLeadingOrDoublePause ==
    /\ text # <<>> => text[1] # <<>>
    /\ \A i \in 1..(Len(text) - 1) : ~(text[i] = <<>> /\ text[i + 1] = <<>>)

\* C20 witness: a '' stands between two committed lines.
C20_Witness ==
    /\ Len(text) = 3
    /\ text[1] # <<>>
    /\ text[2] = <<>>
    /\ text[3] # <<>>

====
